---- MODULE Spec2Model ----
(***************************************************************************)
(* Model of the TikTok restaurant ingestion pipeline:                      *)
(*   downloader.py  (tracker, dedup, handle_process)                       *)
(*   metadata_filter.py (is_likely_restaurant)                             *)
(*   analyzer.py    (analyze_video)                                        *)
(*   geocoder.py    (geocode_restaurant, _last_request_time)               *)
(*   build_web_data.py (build)                                             *)
(* Spec     : concurrent POST /process requests (Flask serves each request *)
(*            in its own thread; the code takes no lock anywhere).         *)
(* SpecSeq  : the same handler, one request at a time.                     *)
(* SpecGeo  : concurrent callers of geocode_restaurant with a clock.       *)
(***************************************************************************)
EXTENDS Naturals, Integers, Sequences, FiniteSets, TLC

(***************************************************************************)
(* Bounds of the model.                                                    *)
(***************************************************************************)
MaxRestaurants == 1     \* records in one analysis response
MaxClock == 6           \* last clock tick of SpecGeo
MaxGeoCalls == 2        \* geocode_restaurant calls in one behaviour of SpecGeo
MaxUrlLen == 3          \* characters of a URL in SpecNorm
MaxBuilds == 2          \* runs of build in SpecBuild
MaxStamps == 2          \* food_shot_timestamps of one record in SpecFrames

(***************************************************************************)
(* Values.                                                                 *)
(***************************************************************************)
None == "None"                       \* Python's None (json null)
Requests == {"r1", "r2"}             \* request threads, one POST /process each
Callers == {"p1", "p2"}              \* threads calling the geocoder

\* Submitted URLs, as character sequences.  UAq differs from UA only by a
\* trailing slash and a query string.
UA == <<"a">>
UAq == <<"a", "/", "?", "x">>
UB == <<"b">>
SubmitURLs == {UA, UAq, UB}
\* Another URL of the video of UA (a short link), with its own normal form.
UC == <<"c">>

\* info['id'] as yt-dlp reports it for a URL, and the file names made of it.
video_id(u) == IF u = UB THEN 2 ELSE 1
VideoIds == {1, 2}
video_file(id) == IF id = 1 THEN "1.mp4" ELSE "2.mp4"
info_file(id) == IF id = 1 THEN "1.info.json" ELSE "2.info.json"
analysis_file(id) == IF id = 1 THEN "1_analysis.json" ELSE "2_analysis.json"

\* None, where the other values are records.
NoneRec == [none |-> TRUE]

\* Python truthiness of a string-or-None value.
Truthy(x) == x # None /\ x # ""

\* Messages str(e) of an exception raised inside analyze_video.
ExcMessages == {"", "boom"}

(***************************************************************************)
(* downloader.py: normalize_url, is_duplicate                              *)
(***************************************************************************)
RECURSIVE BeforeFirst(_, _)
\* s.split(c)[0]
BeforeFirst(s, c) ==
    IF s = <<>> THEN <<>>
    ELSE IF Head(s) = c THEN <<>>
    ELSE <<Head(s)>> \o BeforeFirst(Tail(s), c)

RECURSIVE rstrip(_, _)
\* s.rstrip(c)
rstrip(s, c) ==
    IF s # <<>> /\ s[Len(s)] = c THEN rstrip(SubSeq(s, 1, Len(s) - 1), c) ELSE s

normalize_url_no_fragment(url) == rstrip(BeforeFirst(url, "?"), "/")

normalize_url(url) == rstrip(BeforeFirst(BeforeFirst(url, "?"), "#"), "/")

\* The characters of the URLs of SpecNorm, and those URLs.
UrlChars == {"a", "/", "?", "#"}
NormURLs == UNION {[1..n -> UrlChars] : n \in 0..MaxUrlLen}

is_duplicate_raw(url, tracker) == url \in DOMAIN tracker

is_duplicate(url, tracker) ==
    \E tracked_url \in DOMAIN tracker :
        normalize_url(tracked_url) = normalize_url(url)

\* tracker[url] = entry on a dict
Put(tracker, url, e) ==
    [k \in (DOMAIN tracker) \cup {url} |-> IF k = url THEN e ELSE tracker[k]]

EmptyTracker == <<>>

(***************************************************************************)
(* metadata_filter.py: is_likely_restaurant.  A metadata field is the set  *)
(* of keywords that occur in it as substrings; the code joins the fields   *)
(* into one text and tests each keyword once against that text.            *)
(***************************************************************************)
HIGH_KEYWORDS == {"ramen", "sushi"}
MEDIUM_KEYWORDS == {"food", "spicy"}
ANTI_KEYWORDS == {"gaming", "makeup"}

text_of(metadata) ==
    metadata.title \cup metadata.description \cup metadata.uploader \cup metadata.tags

score_of_per_field(metadata) ==
    LET hits(keywords) ==
            Cardinality(keywords \cap metadata.title)
            + Cardinality(keywords \cap metadata.description)
            + Cardinality(keywords \cap metadata.uploader)
            + Cardinality(keywords \cap metadata.tags)
    IN 3 * hits(HIGH_KEYWORDS) + hits(MEDIUM_KEYWORDS) - 2 * hits(ANTI_KEYWORDS)

score_of(metadata) ==
    3 * Cardinality(HIGH_KEYWORDS \cap text_of(metadata))
    + Cardinality(MEDIUM_KEYWORDS \cap text_of(metadata))
    - 2 * Cardinality(ANTI_KEYWORDS \cap text_of(metadata))

is_likely_restaurant_strict(metadata) ==
    IF score_of(metadata) > 3 THEN "likely"
    ELSE IF score_of(metadata) >= -1 THEN "maybe"
    ELSE "unlikely"

is_likely_restaurant(metadata) ==
    IF score_of(metadata) >= 3 THEN "likely"
    ELSE IF score_of(metadata) >= -1 THEN "maybe"
    ELSE "unlikely"

Meta(title) == [title |-> title, description |-> {}, uploader |-> {}, tags |-> {}]
\* Metadata for the scorer: any keywords in the title, and keywords of each
\* kind repeated in the description, the uploader and the tags.
ScoreMetas ==
    [title : SUBSET (HIGH_KEYWORDS \cup MEDIUM_KEYWORDS \cup ANTI_KEYWORDS),
     description : SUBSET {"ramen", "gaming"},
     uploader : SUBSET {"food"},
     tags : SUBSET {"gaming"}]

\* Metadata the extractor may report in the pipeline.
PipelineMetas == {Meta({"ramen"}), Meta({}), Meta({"gaming", "makeup"})}

(***************************************************************************)
(* geocoder.py: query construction and the fallback decision.              *)
(***************************************************************************)
Locations ==
    [specific_address : {"", "addr"}, neighborhood : {"", "nbhd"},
     city : {"", "Austin"}, state_or_region : {"", "TX"}, country : {"", "USA"}]

\* Locations passed to the geocoder in SpecGeo: address, city and country
\* present or not.
CallLocations == {l \in Locations : l.neighborhood = "" /\ l.state_or_region = ""}

Opt(v) == IF Truthy(v) THEN <<v>> ELSE <<>>

query_parts_no_country(location) ==
    Opt(location.specific_address) \o Opt(location.neighborhood)
    \o Opt(location.city) \o Opt(location.state_or_region)

\* parts, lines 31-41
query_parts(location) ==
    Opt(location.specific_address) \o Opt(location.neighborhood)
    \o Opt(location.city) \o Opt(location.state_or_region) \o Opt(location.country)

\* fallback_parts, lines 74-78
fallback_parts(location) == Opt(location.city) \o Opt(location.country)

needs_fallback_both(location) ==
    /\ Truthy(location.city) /\ Truthy(location.country)
    /\ fallback_parts(location) # query_parts(location)

needs_fallback_always(location) == fallback_parts(location) # <<>>

\* line 80
needs_fallback(location) ==
    fallback_parts(location) # <<>> /\ fallback_parts(location) # query_parts(location)

\* The 1.0 of lines 50, 51 and 84: one second, in clock ticks.
Second == 2

Responses == {"hit", "empty", "error"}
\* Answers of the service in the pipeline: <<to the first request, to a fallback request>>.
GeoAnswers == {<<"hit", "hit">>, <<"empty", "hit">>, <<"empty", "empty">>, <<"error", "hit">>}
Coord == "coord"

\* geocode_restaurant as a function of the service's answers: resp1 to the
\* first request, resp2 to a fallback request if one is made.
geocode_restaurant(location, resp1, resp2) ==
    IF query_parts(location) = <<>> THEN [coords |-> None, requests |-> 0]
    ELSE IF resp1 = "hit" THEN [coords |-> Coord, requests |-> 1]
    ELSE IF resp1 = "error" THEN [coords |-> None, requests |-> 1]
    ELSE IF needs_fallback(location)
         THEN [coords |-> IF resp2 = "hit" THEN Coord ELSE None, requests |-> 2]
         ELSE [coords |-> None, requests |-> 1]

(***************************************************************************)
(* State.                                                                  *)
(***************************************************************************)
VARIABLES
    primary,        \* TRACKER_FILE: [exists, data]
    backup,         \* GCS object state/url_tracker.json: [exists, data]
    files,          \* files in DOWNLOADS_DIR, <<id, "mp4">> and <<id, "info.json">>
    envelopes,      \* GCS objects analysis_results/<id>_analysis.json, by id
    aggregate,      \* GCS object restaurants.json: [exists, items]
    pc,             \* where each request thread is in handle_process
    url,            \* data['url']
    tracker,        \* the dict load_tracker returned to the request
    entry,          \* the value the request assigned to tracker[url], or None
    meta,           \* extract_metadata's result, or None
    cleanup_log,    \* what the cleanup of lines 208-218 printed: "deleted", "warning" or None
    filter_result,  \* is_likely_restaurant(meta)
    dl_result,      \* download_video's result, or None
    analysis,       \* analyze_video's result list (handle_process: analysis)
    analysis_error, \* handle_process: analysis_error
    geo_env,        \* the geocoding service's answers for the current record
    resp,           \* the response returned, or None
    calls,          \* per request: how often each collaborator was invoked
    at_receipt,     \* per request: the two tracker stores when it called
                    \* load_tracker, and how the call's download_json went
    clock,              \* time.time(), in ticks
    last_request_time,  \* geocoder._last_request_time
    gpc,                \* where each caller is in geocode_restaurant
    glocation,          \* its argument
    gwake,              \* when its time.sleep ends
    grequests,          \* requests it issued in the current call
    gresult,            \* what the call returned
    gfirst,             \* the service's answer to the call's first request
    gquery,             \* the parts of the query of its latest request
    gcalls,             \* geocode_restaurant calls started so far
    file_state,         \* analyzer.py: uploaded_file.state as last reported, or None
    unreadable,         \* ids of the envelopes download_json fails on
    builds,             \* runs of build.py's build so far in SpecBuild
    built,              \* build's all_restaurants before its upload_json, or None
    frames              \* extract_food_frames: its argument and what came of the call

pipeVars == <<primary, backup, files, envelopes, aggregate, pc, url, tracker,
              entry, meta, cleanup_log, filter_result, dl_result, analysis, analysis_error,
              geo_env, resp, calls, at_receipt>>
geoVars == <<clock, last_request_time, gpc, glocation, gwake, grequests,
             gresult, gfirst, gquery, gcalls>>
\* Variables of the steps inside analyze_video and build.
fineVars == <<file_state, unreadable, builds, built, frames>>
vars == <<pipeVars, geoVars, fineVars>>

NoCalls == [meta |-> 0, download |-> 0, analyze |-> 0, geocode |-> 0,
            cleanup |-> 0, save |-> 0, rebuild |-> 0]

Absent == [exists |-> FALSE, data |-> EmptyTracker]
Stored(t) == [exists |-> TRUE, data |-> t]

NoLocation == [specific_address |-> "", neighborhood |-> "", city |-> "",
               state_or_region |-> "", country |-> ""]
CityCountry == [NoLocation EXCEPT !.city = "Austin", !.country = "USA"]
AddrCity == [NoLocation EXCEPT !.specific_address = "addr", !.city = "Austin"]
\* Locations the analysis reports in the pipeline.
PipelineLocations == {CityCountry, AddrCity}

Init ==
    /\ primary = Absent
    /\ backup = Absent
    /\ files = {}
    /\ envelopes = <<>>
    /\ aggregate = [exists |-> FALSE, items |-> <<>>]
    /\ pc = [r \in Requests |-> "idle"]
    /\ url = [r \in Requests |-> UA]
    /\ tracker = [r \in Requests |-> EmptyTracker]
    /\ entry = [r \in Requests |-> NoneRec]
    /\ meta = [r \in Requests |-> NoneRec]
    /\ cleanup_log = [r \in Requests |-> None]
    /\ filter_result = [r \in Requests |-> None]
    /\ dl_result = [r \in Requests |-> NoneRec]
    /\ analysis = [r \in Requests |-> <<>>]
    /\ analysis_error = [r \in Requests |-> None]
    /\ geo_env = [r \in Requests |-> <<>>]
    /\ resp = [r \in Requests |-> NoneRec]
    /\ calls = [r \in Requests |-> NoCalls]
    /\ at_receipt = [r \in Requests |->
                        [primary |-> Absent, backup |-> Absent, gcs |-> None]]
    /\ clock = Second
    /\ last_request_time = 0
    /\ gpc = [g \in Callers |-> "idle"]
    /\ glocation = [g \in Callers |-> NoLocation]
    /\ gwake = [g \in Callers |-> 0]
    /\ grequests = [g \in Callers |-> 0]
    /\ gresult = [g \in Callers |-> None]
    /\ gfirst = [g \in Callers |-> None]
    /\ gquery = [g \in Callers |-> <<>>]
    /\ gcalls = 0
    /\ file_state = [r \in Requests |-> None]
    /\ unreadable = {}
    /\ builds = 0
    /\ built = [r \in Requests |-> None]
    /\ frames = NoneRec

(***************************************************************************)
(* downloader.py: load_tracker, save_tracker                               *)
(***************************************************************************)
load_tracker_no_write(gcs_ok) ==
    IF primary.exists
    THEN [tracker |-> primary.data, primary |-> primary, gcs |-> "not contacted"]
    ELSE IF gcs_ok /\ backup.exists /\ backup.data # EmptyTracker
    THEN [tracker |-> backup.data, primary |-> primary, gcs |-> "reached"]
    ELSE [tracker |-> EmptyTracker, primary |-> primary,
          gcs |-> IF gcs_ok THEN "reached" ELSE "unreachable"]

\* load_tracker: what it returns, what it leaves in TRACKER_FILE, and how its
\* download_json call went.  gcs_ok: download_json returns (it raises
\* otherwise).
load_tracker(gcs_ok) ==
    IF primary.exists
    THEN [tracker |-> primary.data, primary |-> primary, gcs |-> "not contacted"]
    ELSE IF gcs_ok /\ backup.exists /\ backup.data # EmptyTracker
    THEN [tracker |-> backup.data, primary |-> Stored(backup.data), gcs |-> "reached"]
    ELSE [tracker |-> EmptyTracker, primary |-> primary,
          gcs |-> IF gcs_ok THEN "reached" ELSE "unreachable"]

Response(code, status, message, category) ==
    [code |-> code, status |-> status, message |-> message, category |-> category]

AlreadyProcessed == Response(200, "skipped", "Already processed", None)

Bump(r, stage) == [calls EXCEPT ![r][stage] = @ + 1]

\* The dict the request holds after tracker[url] = entry.
local_tracker(r) ==
    IF entry[r] = NoneRec THEN tracker[r] ELSE Put(tracker[r], url[r], entry[r])

InFlight(r) == pc[r] \notin {"idle", "done"}

\* return jsonify(...), code: the response goes out; the handler's variables
\* stay as the record of the request.
Return(r, response) ==
    /\ pc' = [pc EXCEPT ![r] = "done"]
    /\ resp' = [resp EXCEPT ![r] = response]
    /\ UNCHANGED <<tracker, meta, cleanup_log, filter_result, dl_result, analysis, analysis_error,
                   geo_env>>

(***************************************************************************)
(* downloader.py: handle_process, step by step.                            *)
(***************************************************************************)
\* lines 144-155: the request arrives, load_tracker, is_duplicate.
DedupCheck(r, u, gcs_ok) ==
    /\ pc[r] = "idle"
    /\ url' = [url EXCEPT ![r] = u]
    /\ tracker' = [tracker EXCEPT ![r] = load_tracker(gcs_ok).tracker]
    /\ primary' = load_tracker(gcs_ok).primary
    /\ entry' = [entry EXCEPT ![r] = NoneRec]
    /\ meta' = [meta EXCEPT ![r] = NoneRec]
    /\ cleanup_log' = [cleanup_log EXCEPT ![r] = None]
    /\ filter_result' = [filter_result EXCEPT ![r] = None]
    /\ dl_result' = [dl_result EXCEPT ![r] = NoneRec]
    /\ analysis' = [analysis EXCEPT ![r] = <<>>]
    /\ analysis_error' = [analysis_error EXCEPT ![r] = None]
    /\ geo_env' = [geo_env EXCEPT ![r] = <<>>]
    /\ calls' = [calls EXCEPT ![r] = NoCalls]
    /\ at_receipt' = [at_receipt EXCEPT ![r] =
           [primary |-> primary, backup |-> backup, gcs |-> load_tracker(gcs_ok).gcs]]
    /\ IF is_duplicate(u, load_tracker(gcs_ok).tracker)
       THEN /\ pc' = [pc EXCEPT ![r] = "done"]
            /\ resp' = [resp EXCEPT ![r] = AlreadyProcessed]
       ELSE /\ pc' = [pc EXCEPT ![r] = "meta"]
            /\ resp' = [resp EXCEPT ![r] = NoneRec]
    /\ UNCHANGED <<backup, files, envelopes, aggregate>>

\* lines 157-162: extract_metadata raises.
MetadataFails(r) ==
    /\ pc[r] = "meta"
    /\ calls' = Bump(r, "meta")
    /\ Return(r, Response(500, "error", "Metadata failed", None))
    /\ UNCHANGED <<primary, backup, files, envelopes, aggregate, url, entry, at_receipt>>

SkippedEntry_with_filename(fr) ==
    [filename |-> video_file(1), category |-> "skipped_not_restaurant", filter_result |-> fr]

SkippedEntry(fr) ==
    [filename |-> None, category |-> "skipped_not_restaurant", filter_result |-> fr]

ExtractMetadata_always_downloading(r, metadata) ==
    /\ pc[r] = "meta"
    /\ calls' = Bump(r, "meta")
    /\ meta' = [meta EXCEPT ![r] = metadata]
    /\ cleanup_log' = cleanup_log
    /\ filter_result' = [filter_result EXCEPT ![r] = is_likely_restaurant(metadata)]
    /\ entry' = entry
    /\ pc' = [pc EXCEPT ![r] = "download"]
    /\ UNCHANGED <<primary, backup, files, envelopes, aggregate, url, tracker,
                   dl_result, analysis, analysis_error, geo_env, resp, at_receipt>>

\* lines 157-178: extract_metadata returns metadata (the handler's meta); the keyword pre-filter.
ExtractMetadata(r, metadata) ==
    /\ pc[r] = "meta"
    /\ calls' = Bump(r, "meta")
    /\ meta' = [meta EXCEPT ![r] = metadata]
    /\ cleanup_log' = cleanup_log
    /\ filter_result' = [filter_result EXCEPT ![r] = is_likely_restaurant(metadata)]
    /\ IF is_likely_restaurant(metadata) = "unlikely"
       THEN /\ entry' = [entry EXCEPT ![r] = SkippedEntry(is_likely_restaurant(metadata))]
            /\ pc' = [pc EXCEPT ![r] = "save"]
       ELSE /\ entry' = entry
            /\ pc' = [pc EXCEPT ![r] = "download"]
    /\ UNCHANGED <<primary, backup, files, envelopes, aggregate, url, tracker,
                   dl_result, analysis, analysis_error, geo_env, resp, at_receipt>>

DownloadFails_recording(r) ==
    /\ pc[r] = "download"
    /\ calls' = Bump(r, "download")
    /\ primary' = Stored(Put(tracker[r], url[r], SkippedEntry(filter_result[r])))
    /\ Return(r, Response(500, "error", "Download failed", None))
    /\ UNCHANGED <<backup, files, envelopes, aggregate, url, entry, at_receipt>>

\* lines 187-192: download_video raises.
DownloadFails(r) ==
    /\ pc[r] = "download"
    /\ calls' = Bump(r, "download")
    /\ Return(r, Response(500, "error", "Download failed", None))
    /\ UNCHANGED <<primary, backup, files, envelopes, aggregate, url, entry, at_receipt>>

\* lines 187-194: download_video writes <id>.mp4 and <id>.info.json.
DownloadVideo(r) ==
    /\ pc[r] = "download"
    /\ calls' = Bump(r, "download")
    /\ files' = files \cup {video_file(video_id(url[r])), info_file(video_id(url[r]))}
    /\ dl_result' = [dl_result EXCEPT ![r] =
           [filename |-> video_file(video_id(url[r])), id |-> video_id(url[r])]]
    /\ pc' = [pc EXCEPT ![r] = "sidecar"]
    /\ UNCHANGED <<primary, backup, envelopes, aggregate, url, tracker, entry,
                   meta, cleanup_log, filter_result, analysis, analysis_error, geo_env, resp, at_receipt>>

\* lines 196-197 and 119-131: load_rich_metadata; readable: json.load returns.
\* The call is outside every try block: an exception ends the request with
\* Flask's 500 response.
LoadRichMetadata(r, readable) ==
    /\ pc[r] = "sidecar"
    /\ IF info_file(dl_result[r].id) \in files /\ ~readable
       THEN Return(r, Response(500, "error", "Internal Server Error", None))
       ELSE /\ pc' = [pc EXCEPT ![r] = "analyze"]
            /\ UNCHANGED <<resp, tracker, meta, cleanup_log, filter_result, dl_result, analysis,
                           analysis_error, geo_env>>
    /\ UNCHANGED <<primary, backup, files, envelopes, aggregate, url, entry,
                   calls, at_receipt>>

(***************************************************************************)
(* analyzer.py: analyze_video, as called at downloader.py line 203.        *)
(***************************************************************************)
Raise(r, msg) ==
    /\ analysis' = [analysis EXCEPT ![r] = <<>>]
    /\ analysis_error' = [analysis_error EXCEPT ![r] = msg]
    /\ pc' = [pc EXCEPT ![r] = "cleanup"]

\* Result lists the model's analysis service may return.
AnalysisResults ==
    UNION {[1..n -> {[location |-> l] : l \in PipelineLocations}] : n \in 0..MaxRestaurants}

\* lines 160-162: the video file is gone.
AnalyzeVideoMissing(r) ==
    /\ pc[r] = "analyze"
    /\ video_file(dl_result[r].id) \notin files
    /\ calls' = Bump(r, "analyze")
    /\ Raise(r, "Video not found")
    /\ UNCHANGED <<primary, backup, files, envelopes, aggregate, url, tracker,
                   entry, meta, cleanup_log, filter_result, dl_result, geo_env, resp, at_receipt>>

\* lines 166-195: the upload or the model call raises an exception whose
\* str() is msg.
AnalyzeVideoRaises(r, msg) ==
    /\ pc[r] = "analyze"
    /\ video_file(dl_result[r].id) \in files
    /\ calls' = Bump(r, "analyze")
    /\ Raise(r, msg)
    /\ UNCHANGED <<primary, backup, files, envelopes, aggregate, url, tracker,
                   entry, meta, cleanup_log, filter_result, dl_result, geo_env, resp, at_receipt>>

\* lines 166-210: the model call returns the list result.
AnalyzeVideo(r, result) ==
    /\ pc[r] = "analyze"
    /\ video_file(dl_result[r].id) \in files
    /\ calls' = Bump(r, "analyze")
    /\ analysis' = [analysis EXCEPT ![r] = result]
    /\ pc' = [pc EXCEPT ![r] = IF result = <<>> THEN "cleanup" ELSE "geocode"]
    /\ UNCHANGED <<primary, backup, files, envelopes, aggregate, url, tracker,
                   entry, meta, cleanup_log, filter_result, dl_result, analysis_error, geo_env,
                   resp, at_receipt>>

Geocoded(x) == "lat" \in DOMAIN x
\* The record the loop of lines 216-224 is at.
NextRecord(result) ==
    CHOOSE i \in 1..Len(result) :
        ~Geocoded(result[i]) /\ \A j \in 1..(i - 1) : Geocoded(result[j])

GeocodeRecord_aborting(r, resp1, resp2) ==
    /\ pc[r] = "geocode"
    /\ LET i == NextRecord(analysis[r])
           out == geocode_restaurant(analysis[r][i].location, resp1, resp2)
           failed == resp1 = "error" \/ (out.requests = 2 /\ resp2 = "error")
           done == [j \in 1..Len(analysis[r]) |->
                       IF j = i \/ (failed /\ j > i)
                       THEN [location |-> analysis[r][j].location,
                             lat |-> IF j = i THEN out.coords ELSE None,
                             lng |-> IF j = i THEN out.coords ELSE None]
                       ELSE analysis[r][j]]
       IN /\ analysis' = [analysis EXCEPT ![r] = done]
          /\ calls' = [calls EXCEPT ![r].geocode = @ + out.requests]
          /\ geo_env' = [geo_env EXCEPT ![r] = <<resp1, resp2>>]
          /\ pc' = [pc EXCEPT ![r] =
                 IF \A j \in 1..Len(done) : Geocoded(done[j]) THEN "envelope" ELSE "geocode"]
    /\ UNCHANGED <<primary, backup, files, envelopes, aggregate, url, tracker,
                   entry, meta, cleanup_log, filter_result, dl_result, analysis_error, resp, at_receipt>>

\* lines 216-224: one turn of the geocoding loop; resp1 and resp2 are the
\* geocoding service's answers.
GeocodeRecord(r, resp1, resp2) ==
    /\ pc[r] = "geocode"
    /\ LET i == NextRecord(analysis[r])
           out == geocode_restaurant(analysis[r][i].location, resp1, resp2)
           done == [analysis[r] EXCEPT ![i] =
                       [location |-> @.location, lat |-> out.coords, lng |-> out.coords]]
       IN /\ analysis' = [analysis EXCEPT ![r] = done]
          /\ calls' = [calls EXCEPT ![r].geocode = @ + out.requests]
          /\ geo_env' = [geo_env EXCEPT ![r] = <<resp1, resp2>>]
          /\ pc' = [pc EXCEPT ![r] =
                 IF \A j \in 1..Len(done) : Geocoded(done[j]) THEN "envelope" ELSE "geocode"]
    /\ UNCHANGED <<primary, backup, files, envelopes, aggregate, url, tracker,
                   entry, meta, cleanup_log, filter_result, dl_result, analysis_error, resp, at_receipt>>

Envelope(r) ==
    [tiktok_url |-> url[r], restaurants_found |-> Len(analysis[r]),
     restaurants |-> analysis[r]]

\* lines 228-247: upload_json of the envelope (the list is not empty here).
UploadEnvelope(r) ==
    /\ pc[r] = "envelope"
    /\ envelopes' = Put(envelopes, dl_result[r].id, Envelope(r))
    /\ pc' = [pc EXCEPT ![r] = "cleanup"]
    /\ UNCHANGED <<primary, backup, files, aggregate, url, tracker, entry,
                   meta, cleanup_log, filter_result, dl_result, analysis, analysis_error, geo_env,
                   resp, calls, at_receipt>>

\* lines 240-242: upload_json raises.
UploadEnvelopeFails(r, msg) ==
    /\ pc[r] = "envelope"
    /\ Raise(r, msg)
    /\ UNCHANGED <<primary, backup, files, envelopes, aggregate, url, tracker,
                   entry, meta, cleanup_log, filter_result, dl_result, geo_env, resp, calls, at_receipt>>

(***************************************************************************)
(* downloader.py: handle_process after the analysis.                       *)
(***************************************************************************)
\* lines 220-226
category_of(r) ==
    IF Truthy(analysis_error[r]) THEN "analysis_failed"
    ELSE IF Len(analysis[r]) > 0 THEN "restaurant"
    ELSE "not_restaurant"

\* lines 229-241
FullEntry(r) ==
    [filename |-> dl_result[r].filename,
     category |-> category_of(r),
     filter_result |-> filter_result[r],
     restaurants_found |-> Len(analysis[r]),
     analysis_file |-> IF analysis[r] # <<>> THEN analysis_file(dl_result[r].id) ELSE None,
     analysis_error |-> analysis_error[r]]

after_cleanup_video_only(r, how) ==
    IF how = "raise_first" THEN files ELSE files \ {video_file(dl_result[r].id)}

\* What the try block of lines 209-218 leaves in DOWNLOADS_DIR.
\* how: "ok", "raise_first" (the first unlink raises), "raise_second".
after_cleanup(r, how) ==
    CASE how = "ok" -> files \ {video_file(dl_result[r].id), info_file(dl_result[r].id)}
      [] how = "raise_first" -> files
      [] how = "raise_second" -> files \ {video_file(dl_result[r].id)}

\* lines 208-241: cleanup, category, tracker[url] = {...}.
Cleanup(r, how) ==
    /\ pc[r] = "cleanup"
    /\ how = "raise_first" => video_file(dl_result[r].id) \in files
    /\ how = "raise_second" => info_file(dl_result[r].id) \in files
    /\ files' = after_cleanup(r, how)
    /\ cleanup_log' = [cleanup_log EXCEPT ![r] = IF how = "ok" THEN "deleted" ELSE "warning"]
    /\ calls' = Bump(r, "cleanup")
    /\ entry' = [entry EXCEPT ![r] = FullEntry(r)]
    /\ pc' = [pc EXCEPT ![r] = "save"]
    /\ UNCHANGED <<primary, backup, envelopes, aggregate, url, tracker,
                   meta, filter_result, dl_result, analysis, analysis_error, geo_env,
                   resp, at_receipt>>

\* save_tracker, lines 51-52: the whole dict replaces TRACKER_FILE.
SavePrimary(r) ==
    /\ pc[r] = "save"
    /\ primary' = Stored(local_tracker(r))
    /\ calls' = Bump(r, "save")
    /\ pc' = [pc EXCEPT ![r] = "backup"]
    /\ UNCHANGED <<backup, files, envelopes, aggregate, url, tracker, entry,
                   meta, cleanup_log, filter_result, dl_result, analysis, analysis_error, geo_env,
                   resp, at_receipt>>

SuccessResponse(r) ==
    Response(200, "success", "restaurant(s) found", entry[r].category)

SaveBackup_always_rebuilding(r, ok) ==
    /\ pc[r] = "backup"
    /\ backup' = IF ok THEN Stored(local_tracker(r)) ELSE backup
    /\ IF entry[r].category = "skipped_not_restaurant"
       THEN Return(r, Response(200, "skipped", "Not restaurant-related", None))
       ELSE /\ pc' = [pc EXCEPT ![r] = "rebuild"]
            /\ UNCHANGED <<resp, tracker, meta, cleanup_log, filter_result, dl_result,
                           analysis, analysis_error, geo_env>>
    /\ UNCHANGED <<primary, files, envelopes, aggregate, url, entry, calls, at_receipt>>

\* save_tracker, lines 54-58: the mirror to GCS (ok: upload_json returns),
\* then lines 180-185 or 244-245.
SaveBackup(r, ok) ==
    /\ pc[r] = "backup"
    /\ backup' = IF ok THEN Stored(local_tracker(r)) ELSE backup
    /\ CASE entry[r].category = "skipped_not_restaurant" ->
              Return(r, Response(200, "skipped", "Not restaurant-related", None))
         [] entry[r].category = "restaurant" ->
              /\ pc' = [pc EXCEPT ![r] = "rebuild"]
              /\ UNCHANGED <<resp, tracker, meta, cleanup_log, filter_result, dl_result, analysis,
                             analysis_error, geo_env>>
         [] OTHER ->
              Return(r, SuccessResponse(r))
    /\ UNCHANGED <<primary, files, envelopes, aggregate, url, entry, calls, at_receipt>>

(***************************************************************************)
(* build_web_data.py: build                                                *)
(***************************************************************************)
HasCoordinates_either(x) == x.lat # None \/ x.lng # None

\* lines 35-39
HasCoordinates(x) == x.lat # None /\ x.lng # None

\* lines 30-55 for one envelope
items_of(env) ==
    LET kept == SelectSeq(env.restaurants, HasCoordinates)
    IN [i \in 1..Len(kept) |->
           [location |-> kept[i].location, lat |-> kept[i].lat, lng |-> kept[i].lng,
            tiktok_url |-> env.tiktok_url]]

RECURSIVE all_restaurants(_, _)
\* lines 20-55: the envelopes in sorted order of their names
all_restaurants(envs, ids) ==
    IF ids = {} THEN <<>>
    ELSE LET id == CHOOSE x \in ids : \A y \in ids : x <= y
         IN items_of(envs[id]) \o all_restaurants(envs, ids \ {id})

build(envs) == [exists |-> TRUE, items |-> all_restaurants(envs, DOMAIN envs)]

\* lines 20-28: the envelopes download_json returns.
readable_envelopes ==
    [id \in (DOMAIN envelopes) \ unreadable |-> envelopes[id]]

\* downloader.py lines 244-263: rebuild_web_data (ok: it returns), response.
Rebuild(r, ok) ==
    /\ pc[r] = "rebuild"
    /\ aggregate' = IF ok THEN build(readable_envelopes) ELSE aggregate
    /\ calls' = Bump(r, "rebuild")
    /\ Return(r, SuccessResponse(r))
    /\ UNCHANGED <<primary, backup, files, envelopes, url, entry, at_receipt>>

\* The service restarts on a machine without TRACKER_FILE (load_tracker's
\* "cold start"): the local disk is gone, GCS is kept.
ColdStart ==
    /\ \A r \in Requests : ~InFlight(r)
    /\ primary.exists
    /\ primary' = Absent
    /\ files' = {}
    /\ UNCHANGED <<backup, envelopes, aggregate, pc, url, tracker, entry,
                   meta, cleanup_log, filter_result, dl_result, analysis, analysis_error, geo_env,
                   resp, calls, at_receipt>>

\* The inputs of one request: what it submits and what its collaborators do.
AllInputs ==
    [urls |-> SubmitURLs, gcs_ok |-> BOOLEAN, metas |-> PipelineMetas,
     readable |-> BOOLEAN, msgs |-> ExcMessages, results |-> AnalysisResults,
     answers |-> GeoAnswers, cleanups |-> {"ok", "raise_first", "raise_second"},
     backup_ok |-> BOOLEAN, rebuild_ok |-> BOOLEAN]

\* The inputs of the concurrent specification: every stage can still fail,
\* the storage services answer.
ConcurrentInputs ==
    [urls |-> SubmitURLs, gcs_ok |-> {TRUE}, metas |-> PipelineMetas,
     readable |-> BOOLEAN, msgs |-> {"boom"}, results |-> AnalysisResults,
     answers |-> {<<"hit", "hit">>}, cleanups |-> {"ok"},
     backup_ok |-> {TRUE}, rebuild_ok |-> {TRUE}]

Step(r, in) ==
    \/ \E u \in in.urls, gcs_ok \in in.gcs_ok : DedupCheck(r, u, gcs_ok)
    \/ MetadataFails(r)
    \/ \E metadata \in in.metas : ExtractMetadata(r, metadata)
    \/ DownloadFails(r)
    \/ DownloadVideo(r)
    \/ \E readable \in in.readable : LoadRichMetadata(r, readable)
    \/ \E msg \in in.msgs : AnalyzeVideoRaises(r, msg)
    \/ \E result \in in.results : AnalyzeVideo(r, result)
    \/ \E a \in in.answers : GeocodeRecord(r, a[1], a[2])
    \/ UploadEnvelope(r)
    \/ \E msg \in in.msgs : UploadEnvelopeFails(r, msg)
    \/ \E how \in in.cleanups : Cleanup(r, how)
    \/ SavePrimary(r)
    \/ \E ok \in in.backup_ok : SaveBackup(r, ok)
    \/ \E ok \in in.rebuild_ok : Rebuild(r, ok)

\* Requests served concurrently, each in its own thread.  The video of a
\* request can be gone at its analysis only here: the cleanup of another
\* request for the same video removed it.
Next ==
    /\ \E r \in Requests : Step(r, ConcurrentInputs) \/ AnalyzeVideoMissing(r)
    /\ UNCHANGED <<geoVars, fineVars>>

Spec == Init /\ [][Next]_vars

\* The inputs of requests that share DOWNLOADS_DIR: two URLs of one video and
\* one of another, every verdict that downloads, every outcome of the cleanup.
FileInputs ==
    [urls |-> {UA, UC, UB}, gcs_ok |-> {TRUE}, metas |-> {Meta({"ramen"})},
     readable |-> BOOLEAN, msgs |-> {"boom"}, results |-> AnalysisResults,
     answers |-> {<<"hit", "hit">>},
     cleanups |-> {"ok", "raise_first", "raise_second"},
     backup_ok |-> {TRUE}, rebuild_ok |-> {TRUE}]

NextFiles ==
    /\ \E r \in Requests : Step(r, FileInputs) \/ AnalyzeVideoMissing(r)
    /\ UNCHANGED <<geoVars, fineVars>>

SpecFiles == Init /\ [][NextFiles]_vars

\* The inputs of an earlier request, which leaves the stores in some state
\* for the next one: every outcome category, the backup possibly behind.
EarlierInputs ==
    [urls |-> SubmitURLs, gcs_ok |-> {TRUE}, metas |-> PipelineMetas,
     readable |-> {TRUE}, msgs |-> ExcMessages,
     results |-> {res \in AnalysisResults :
                     \A i \in 1..Len(res) : res[i].location = CityCountry},
     answers |-> {<<"hit", "hit">>}, cleanups |-> {"ok"},
     backup_ok |-> BOOLEAN, rebuild_ok |-> {TRUE}]

\* One request at a time: r2, with every input, arrives after r1 has returned.
NextSeq ==
    /\ \/ Step("r1", EarlierInputs)
       \/ pc["r1"] = "done" /\ Step("r2", AllInputs)
       \/ ColdStart
    /\ UNCHANGED <<geoVars, fineVars>>

SpecSeq == Init /\ [][NextSeq]_vars

\* Result lists of up to one record more than AnalysisResults holds.
RichResults ==
    UNION {[1..n -> {[location |-> l] : l \in PipelineLocations}] :
              n \in 0..(MaxRestaurants + 1)}

\* The inputs of a single request with every outcome of every geocoding
\* request.
AnalyzeInputs ==
    [urls |-> {UA}, gcs_ok |-> {TRUE}, metas |-> PipelineMetas,
     readable |-> BOOLEAN, msgs |-> ExcMessages, results |-> RichResults,
     answers |-> Responses \X Responses,
     cleanups |-> {"ok", "raise_first", "raise_second"},
     backup_ok |-> BOOLEAN, rebuild_ok |-> BOOLEAN]

\* One request on an empty tracker.
NextOne ==
    /\ Step("r1", AnalyzeInputs)
    /\ UNCHANGED <<geoVars, fineVars>>

SpecOne == Init /\ [][NextOne]_vars

\* The thread that served request r takes the next request: the locals of
\* the finished call are gone.
NextRequest(r) ==
    /\ pc[r] = "done"
    /\ pc' = [pc EXCEPT ![r] = "idle"]
    /\ url' = [url EXCEPT ![r] = UA]
    /\ tracker' = [tracker EXCEPT ![r] = EmptyTracker]
    /\ entry' = [entry EXCEPT ![r] = NoneRec]
    /\ meta' = [meta EXCEPT ![r] = NoneRec]
    /\ cleanup_log' = [cleanup_log EXCEPT ![r] = None]
    /\ filter_result' = [filter_result EXCEPT ![r] = None]
    /\ resp' = [resp EXCEPT ![r] = NoneRec]
    /\ calls' = [calls EXCEPT ![r] = NoCalls]
    /\ at_receipt' = [at_receipt EXCEPT ![r] =
           [primary |-> Absent, backup |-> Absent, gcs |-> None]]
    /\ UNCHANGED <<primary, backup, files, envelopes, aggregate, dl_result,
                   analysis, analysis_error, geo_env>>

\* Metadata the scorer calls unlikely.
UnlikelyMetas == {m \in PipelineMetas : is_likely_restaurant(m) = "unlikely"}

\* load_tracker and save_tracker over any number of requests and cold
\* starts: requests that are rejected as duplicates, fail at the metadata
\* extraction, or are filtered out and saved.
NextLoad ==
    /\ \/ \E r \in Requests :
             \/ \E u \in SubmitURLs, gcs_ok \in BOOLEAN : DedupCheck(r, u, gcs_ok)
             \/ MetadataFails(r)
             \/ \E metadata \in UnlikelyMetas : ExtractMetadata(r, metadata)
             \/ SavePrimary(r)
             \/ \E ok \in BOOLEAN : SaveBackup(r, ok)
             \/ NextRequest(r)
       \/ ColdStart
    /\ UNCHANGED <<geoVars, fineVars>>

SpecLoad == Init /\ [][NextLoad]_vars

\* The scorer on any metadata: a request up to the keyword pre-filter.
NextScore ==
    /\ \/ \E u \in SubmitURLs : DedupCheck("r1", u, TRUE)
       \/ \E metadata \in ScoreMetas : ExtractMetadata("r1", metadata)
    /\ UNCHANGED <<geoVars, fineVars>>

SpecScore == Init /\ [][NextScore]_vars

\* A request for any URL of NormURLs that is rejected as a duplicate or
\* filtered out and saved under its raw URL.
NormStep(r) ==
    \/ \E u \in NormURLs : DedupCheck(r, u, TRUE)
    \/ \E metadata \in UnlikelyMetas : ExtractMetadata(r, metadata)
    \/ SavePrimary(r)
    \/ SaveBackup(r, TRUE)

\* Two such requests, one after the other.
NextNorm ==
    /\ \/ NormStep("r1")
       \/ pc["r1"] = "done" /\ NormStep("r2")
    /\ UNCHANGED <<geoVars, fineVars>>

SpecNorm == Init /\ [][NextNorm]_vars

(***************************************************************************)
(* analyzer.py: analyze_video lines 166-195, call by call.                 *)
(***************************************************************************)
\* States the Files API reports; ACTIVE is the ready one.
FileStates == {"PROCESSING", "ACTIVE", "FAILED"}

UploadFailed == "File upload failed with state: FAILED"

\* lines 172-178: the loop test and the test after it, on the state reported.
AfterReport(r, state) ==
    IF state = "PROCESSING"
    THEN /\ pc' = [pc EXCEPT ![r] = "poll_sleep"]
         /\ UNCHANGED <<analysis, analysis_error>>
    ELSE IF state # "ACTIVE"
    THEN Raise(r, UploadFailed)
    ELSE /\ pc' = [pc EXCEPT ![r] = "generate"]
         /\ UNCHANGED <<analysis, analysis_error>>

\* lines 160-169: client.files.upload returns a file in the state reported.
UploadFile(r, state) ==
    /\ pc[r] = "analyze"
    /\ video_file(dl_result[r].id) \in files
    /\ calls' = Bump(r, "analyze")
    /\ file_state' = [file_state EXCEPT ![r] = state]
    /\ UNCHANGED <<unreadable, builds, built, frames>>
    /\ AfterReport(r, state)
    /\ UNCHANGED <<primary, backup, files, envelopes, aggregate, url, tracker,
                   entry, meta, cleanup_log, filter_result, dl_result, geo_env, resp,
                   at_receipt>>

\* line 174: time.sleep(3) ends.
PollSleep(r) ==
    /\ pc[r] = "poll_sleep"
    /\ pc' = [pc EXCEPT ![r] = "poll_get"]
    /\ UNCHANGED <<primary, backup, files, envelopes, aggregate, url, tracker,
                   entry, meta, cleanup_log, filter_result, dl_result, analysis,
                   analysis_error, geo_env, resp, calls, at_receipt, file_state, unreadable, builds, built, frames>>

\* line 175: client.files.get returns the file in the state reported.
PollFile(r, state) ==
    /\ pc[r] = "poll_get"
    /\ file_state' = [file_state EXCEPT ![r] = state]
    /\ UNCHANGED <<unreadable, builds, built, frames>>
    /\ AfterReport(r, state)
    /\ UNCHANGED <<primary, backup, files, envelopes, aggregate, url, tracker,
                   entry, meta, cleanup_log, filter_result, dl_result, geo_env, resp,
                   calls, at_receipt>>

\* line 175: client.files.get raises.
PollFileRaises(r, msg) ==
    /\ pc[r] = "poll_get"
    /\ Raise(r, msg)
    /\ UNCHANGED <<primary, backup, files, envelopes, aggregate, url, tracker,
                   entry, meta, cleanup_log, filter_result, dl_result, geo_env, resp,
                   calls, at_receipt, file_state, unreadable, builds, built, frames>>

\* lines 186-210: client.models.generate_content returns the list result.
GenerateContent(r, result) ==
    /\ pc[r] = "generate"
    /\ analysis' = [analysis EXCEPT ![r] = result]
    /\ pc' = [pc EXCEPT ![r] = IF result = <<>> THEN "cleanup" ELSE "geocode"]
    /\ UNCHANGED <<primary, backup, files, envelopes, aggregate, url, tracker,
                   entry, meta, cleanup_log, filter_result, dl_result, analysis_error,
                   geo_env, resp, calls, at_receipt, file_state, unreadable, builds, built, frames>>

\* lines 186-193: client.models.generate_content raises.
GenerateContentRaises(r, msg) ==
    /\ pc[r] = "generate"
    /\ Raise(r, msg)
    /\ UNCHANGED <<primary, backup, files, envelopes, aggregate, url, tracker,
                   entry, meta, cleanup_log, filter_result, dl_result, geo_env, resp,
                   calls, at_receipt, file_state, unreadable, builds, built, frames>>

\* The inputs of a request whose analysis is followed call by call.
PollInputs ==
    [urls |-> {UA}, gcs_ok |-> {TRUE}, metas |-> PipelineMetas,
     readable |-> BOOLEAN, msgs |-> {"boom"}, results |-> AnalysisResults,
     answers |-> GeoAnswers, cleanups |-> {"ok"},
     backup_ok |-> BOOLEAN, rebuild_ok |-> BOOLEAN]

\* The steps of handle_process around the analysis.
OuterStep(r, in) ==
    \/ \E u \in in.urls, gcs_ok \in in.gcs_ok : DedupCheck(r, u, gcs_ok)
    \/ MetadataFails(r)
    \/ \E metadata \in in.metas : ExtractMetadata(r, metadata)
    \/ DownloadFails(r)
    \/ DownloadVideo(r)
    \/ \E readable \in in.readable : LoadRichMetadata(r, readable)
    \/ \E msg \in in.msgs : AnalyzeVideoRaises(r, msg)
    \/ \E a \in in.answers : GeocodeRecord(r, a[1], a[2])
    \/ UploadEnvelope(r)
    \/ \E msg \in in.msgs : UploadEnvelopeFails(r, msg)
    \/ \E how \in in.cleanups : Cleanup(r, how)
    \/ SavePrimary(r)
    \/ \E ok \in in.backup_ok : SaveBackup(r, ok)
    \/ \E ok \in in.rebuild_ok : Rebuild(r, ok)

\* The analysis, call by call.
InnerStep(r, in) ==
    \/ \E state \in FileStates : UploadFile(r, state)
    \/ PollSleep(r)
    \/ \E state \in FileStates : PollFile(r, state)
    \/ \E msg \in in.msgs : PollFileRaises(r, msg)
    \/ \E result \in in.results : GenerateContent(r, result)
    \/ \E msg \in in.msgs : GenerateContentRaises(r, msg)

\* One request; every call of it returns or raises.
NextPoll ==
    \/ OuterStep("r1", PollInputs) /\ UNCHANGED <<geoVars, fineVars>>
    \/ InnerStep("r1", PollInputs) /\ UNCHANGED geoVars

\* The thread of the request keeps running: a step that can be taken is taken.
SpecPoll == Init /\ [][NextPoll]_vars /\ WF_vars(NextPoll)

(***************************************************************************)
(* build_web_data.py run by itself over envelopes persisted earlier.       *)
(***************************************************************************)
\* Records as analyze_video persists them: each coordinate a number or null.
StoredRecords ==
    {[location |-> CityCountry, lat |-> la, lng |-> ln] : la, ln \in {None, Coord}}

\* Non-empty record lists (analyzer.py 238: only those are persisted).
StoredLists ==
    UNION {[1..n -> StoredRecords] : n \in 1..(MaxRestaurants + 1)}

url_of(id) == IF id = 2 THEN UB ELSE UA

\* analyzer.py 228-242, by an earlier request for the video id.
StoreEnvelope(id, restaurants) ==
    /\ id \notin DOMAIN envelopes
    /\ envelopes' = Put(envelopes, id,
           [tiktok_url |-> url_of(id), restaurants_found |-> Len(restaurants),
            restaurants |-> restaurants])
    /\ UNCHANGED <<primary, backup, files, aggregate, pc, url, tracker, entry, meta,
                   cleanup_log, filter_result, dl_result, analysis, analysis_error,
                   geo_env, resp, calls, at_receipt, file_state, unreadable, builds, built, frames>>

\* The stored object of id stops being readable (download_json raises or
\* returns None on it, build_web_data.py 21-28).
BlobUnreadable(id) ==
    /\ id \in (DOMAIN envelopes) \ unreadable
    /\ unreadable' = unreadable \cup {id}
    /\ UNCHANGED <<pipeVars, file_state, builds, built, frames>>

\* build_web_data.py 11-58, one run with no other run and no upload beside it.
BuildRun ==
    /\ builds < MaxBuilds
    /\ builds' = builds + 1
    /\ aggregate' = build(readable_envelopes)
    /\ UNCHANGED <<primary, backup, files, envelopes, pc, url, tracker, entry, meta,
                   cleanup_log, filter_result, dl_result, analysis, analysis_error,
                   geo_env, resp, calls, at_receipt, file_state, unreadable, built, frames>>

NextBuild ==
    /\ \/ \E id \in VideoIds, restaurants \in StoredLists : StoreEnvelope(id, restaurants)
       \/ \E id \in VideoIds : BlobUnreadable(id)
       \/ BuildRun
    /\ UNCHANGED geoVars

SpecBuild == Init /\ [][NextBuild]_vars

(***************************************************************************)
(* build_web_data.py called by concurrent requests: build in two steps.    *)
(***************************************************************************)
\* downloader.py 245-247 and build_web_data.py 11-55: the envelopes are
\* listed and read into all_restaurants.
RebuildList(r) ==
    /\ pc[r] = "rebuild"
    /\ built' = [built EXCEPT ![r] = build(readable_envelopes).items]
    /\ calls' = Bump(r, "rebuild")
    /\ pc' = [pc EXCEPT ![r] = "rebuild_upload"]
    /\ UNCHANGED <<primary, backup, files, envelopes, aggregate, url, tracker, entry,
                   meta, cleanup_log, filter_result, dl_result, analysis, analysis_error,
                   geo_env, resp, at_receipt, file_state, unreadable, builds, frames>>

\* build_web_data.py 57 and downloader.py 248-263: upload_json of
\* all_restaurants (ok: it returns), then the response.
RebuildUpload(r, ok) ==
    /\ pc[r] = "rebuild_upload"
    /\ aggregate' = IF ok THEN [exists |-> TRUE, items |-> built[r]] ELSE aggregate
    /\ Return(r, SuccessResponse(r))
    /\ UNCHANGED <<primary, backup, files, envelopes, url, entry, calls, at_receipt,
                   file_state, unreadable, builds, built, frames>>

\* The inputs of concurrent requests for two videos whose services answer.
AggregateInputs ==
    [urls |-> {UA, UB}, gcs_ok |-> {TRUE}, metas |-> {Meta({"ramen"})},
     readable |-> {TRUE}, msgs |-> {"boom"}, results |-> AnalysisResults,
     answers |-> {<<"hit", "hit">>}, cleanups |-> {"ok"},
     backup_ok |-> {TRUE}, rebuild_ok |-> {TRUE}]

\* handle_process up to the rebuild.
StepToRebuild(r, in) ==
    /\ \/ \E u \in in.urls, gcs_ok \in in.gcs_ok : DedupCheck(r, u, gcs_ok)
       \/ MetadataFails(r)
       \/ \E metadata \in in.metas : ExtractMetadata(r, metadata)
       \/ DownloadFails(r)
       \/ DownloadVideo(r)
       \/ \E readable \in in.readable : LoadRichMetadata(r, readable)
       \/ \E msg \in in.msgs : AnalyzeVideoRaises(r, msg)
       \/ \E result \in in.results : AnalyzeVideo(r, result)
       \/ \E a \in in.answers : GeocodeRecord(r, a[1], a[2])
       \/ UploadEnvelope(r)
       \/ \E msg \in in.msgs : UploadEnvelopeFails(r, msg)
       \/ \E how \in in.cleanups : Cleanup(r, how)
       \/ SavePrimary(r)
       \/ \E ok \in in.backup_ok : SaveBackup(r, ok)
    /\ UNCHANGED fineVars

\* Concurrent requests, the rebuild of each in its two steps.
NextAggregate ==
    /\ \E r \in Requests :
          \/ StepToRebuild(r, AggregateInputs)
          \/ RebuildList(r)
          \/ \E ok \in AggregateInputs.rebuild_ok : RebuildUpload(r, ok)
    /\ UNCHANGED geoVars

SpecAggregate == Init /\ [][NextAggregate]_vars

(***************************************************************************)
(* analyzer.py: extract_food_frames                                        *)
(***************************************************************************)
\* What a reported timestamp is to lines 96-103: a string of two integer
\* parts ("ok"), a string that does not split in two at ':' ("parts"), a
\* string whose parts are not integers ("nonint"), a JSON value that is not a
\* string ("nonstr").
StampKinds == {"ok", "parts", "nonint", "nonstr"}

\* What becomes of a well-formed timestamp in lines 110-125: the frame is
\* uploaded, ffmpeg raises, ffmpeg times out, no frame is produced,
\* upload_file raises.
StampOutcomes == {"uploaded", "ffmpeg_error", "timeout", "no_frame", "upload_error"}

Stamps ==
    {[kind |-> "ok", outcome |-> o] : o \in StampOutcomes}
    \cup {[kind |-> k, outcome |-> None] : k \in StampKinds \ {"ok"}}

StampLists == UNION {[1..n -> Stamps] : n \in 0..MaxStamps}

\* The records handed to extract_food_frames, each by its timestamps.
FrameInputs == UNION {[1..n -> StampLists] : n \in 1..2}

\* lines 96-98: ts.split(':') raises on a value that is not a string.
split_raises(ts) == ts.kind = "nonstr"

\* lines 94-125 for one timestamp: the name appended to food_images, if any.
frame_of(i, j, ts) ==
    IF ts.kind = "ok" /\ ts.outcome = "uploaded" THEN <<(<<i, j>>)>> ELSE <<>>

RECURSIVE food_images(_, _, _)
\* lines 92-125: the loop over the timestamps of record i, from the j-th on.
food_images(i, timestamps, j) ==
    IF j > Len(timestamps) THEN <<>>
    ELSE frame_of(i, j, timestamps[j]) \o food_images(i, timestamps, j + 1)

\* lines 82-129: the call raises at the first value that is not a string,
\* otherwise every record gets its food_images.
extract_food_frames(restaurants) ==
    IF \E i \in 1..Len(restaurants) : \E j \in 1..Len(restaurants[i]) :
           split_raises(restaurants[i][j])
    THEN [restaurants |-> restaurants, raised |-> TRUE, images |-> <<>>]
    ELSE [restaurants |-> restaurants, raised |-> FALSE,
          images |-> [i \in 1..Len(restaurants) |-> food_images(i, restaurants[i], 1)]]

\* analyze_video calls extract_food_frames (lines 208-210).
ExtractFoodFrames(restaurants) ==
    /\ frames' = extract_food_frames(restaurants)
    /\ UNCHANGED <<pipeVars, geoVars, file_state, unreadable, builds, built>>

\* One call of analyze_video makes one call of extract_food_frames.
NextFrames ==
    /\ frames = NoneRec
    /\ \E restaurants \in FrameInputs : ExtractFoodFrames(restaurants)

SpecFrames == Init /\ [][NextFrames]_vars

(***************************************************************************)
(* geocoder.py: geocode_restaurant, statement by statement, for callers    *)
(* in concurrent threads (analyze_video runs in the request's thread).     *)
(***************************************************************************)
GeoReturn(g, coords) ==
    /\ gpc' = [gpc EXCEPT ![g] = "returned"]
    /\ gresult' = [gresult EXCEPT ![g] = coords]

\* lines 27-46: the call, the query parts.
GeoCall(g, location) ==
    /\ gpc[g] \in {"idle", "returned"}
    /\ gcalls < MaxGeoCalls
    /\ gcalls' = gcalls + 1
    /\ glocation' = [glocation EXCEPT ![g] = location]
    /\ grequests' = [grequests EXCEPT ![g] = 0]
    /\ gfirst' = [gfirst EXCEPT ![g] = None]
    /\ gquery' = [gquery EXCEPT ![g] = <<>>]
    /\ IF query_parts(location) = <<>>
       THEN GeoReturn(g, None)
       ELSE /\ gpc' = [gpc EXCEPT ![g] = "ratelimit"]
            /\ gresult' = [gresult EXCEPT ![g] = None]
    /\ UNCHANGED <<clock, last_request_time, gwake>>

\* lines 49-51: elapsed, and the sleep it asks for.
GeoRateLimit(g) ==
    /\ gpc[g] = "ratelimit"
    /\ LET elapsed == clock - last_request_time
       IN IF elapsed < Second
          THEN /\ gwake' = [gwake EXCEPT ![g] = clock + (Second - elapsed)]
               /\ gpc' = [gpc EXCEPT ![g] = "sleep"]
          ELSE /\ gwake' = gwake
               /\ gpc' = [gpc EXCEPT ![g] = "send"]
    /\ UNCHANGED <<clock, last_request_time, glocation, grequests, gresult,
                   gfirst, gquery, gcalls>>

\* line 51: time.sleep returns.
GeoWake(g) ==
    /\ gpc[g] = "sleep"
    /\ clock >= gwake[g]
    /\ gpc' = [gpc EXCEPT ![g] = "send"]
    /\ UNCHANGED <<clock, last_request_time, glocation, gwake, grequests,
                   gresult, gfirst, gquery, gcalls>>

\* lines 63-64: _last_request_time = time.time(); the request goes out.
GeoSend(g) ==
    /\ gpc[g] = "send"
    /\ last_request_time' = clock
    /\ grequests' = [grequests EXCEPT ![g] = @ + 1]
    /\ gquery' = [gquery EXCEPT ![g] = query_parts(glocation[g])]
    /\ gpc' = [gpc EXCEPT ![g] = "wait"]
    /\ UNCHANGED <<clock, glocation, gwake, gresult, gfirst, gcalls>>

\* lines 64-84 and 103-108: the answer to the first request.
GeoResponse(g, answer) ==
    /\ gpc[g] = "wait"
    /\ gfirst' = [gfirst EXCEPT ![g] = answer]
    /\ CASE answer = "hit" -> GeoReturn(g, Coord) /\ gwake' = gwake
         [] answer = "error" -> GeoReturn(g, None) /\ gwake' = gwake
         [] OTHER ->
              IF needs_fallback(glocation[g])
              THEN /\ gwake' = [gwake EXCEPT ![g] = clock + Second]
                   /\ gpc' = [gpc EXCEPT ![g] = "fallback_sleep"]
                   /\ gresult' = gresult
              ELSE GeoReturn(g, None) /\ gwake' = gwake
    /\ UNCHANGED <<clock, last_request_time, glocation, grequests, gquery, gcalls>>

\* line 84: time.sleep(1.0) returns.
GeoFallbackWake(g) ==
    /\ gpc[g] = "fallback_sleep"
    /\ clock >= gwake[g]
    /\ gpc' = [gpc EXCEPT ![g] = "fallback_send"]
    /\ UNCHANGED <<clock, last_request_time, glocation, gwake, grequests,
                   gresult, gfirst, gquery, gcalls>>

\* lines 93-94: the fallback request goes out.
GeoFallbackSend(g) ==
    /\ gpc[g] = "fallback_send"
    /\ last_request_time' = clock
    /\ grequests' = [grequests EXCEPT ![g] = @ + 1]
    /\ gquery' = [gquery EXCEPT ![g] = fallback_parts(glocation[g])]
    /\ gpc' = [gpc EXCEPT ![g] = "fallback_wait"]
    /\ UNCHANGED <<clock, glocation, gwake, gresult, gfirst, gcalls>>

\* lines 94-108: the answer to the fallback request.
GeoFallbackResponse(g, answer) ==
    /\ gpc[g] = "fallback_wait"
    /\ GeoReturn(g, IF answer = "hit" THEN Coord ELSE None)
    /\ UNCHANGED <<clock, last_request_time, glocation, gwake, grequests,
                   gfirst, gquery, gcalls>>

\* time passes
Tick ==
    /\ clock < MaxClock
    /\ clock' = clock + 1
    /\ UNCHANGED <<last_request_time, gpc, glocation, gwake, grequests,
                   gresult, gfirst, gquery, gcalls>>

NextGeo ==
    /\ \/ \E g \in Callers :
             \/ \E location \in CallLocations : GeoCall(g, location)
             \/ GeoRateLimit(g)
             \/ GeoWake(g)
             \/ GeoSend(g)
             \/ \E answer \in Responses : GeoResponse(g, answer)
             \/ GeoFallbackWake(g)
             \/ GeoFallbackSend(g)
             \/ \E answer \in Responses : GeoFallbackResponse(g, answer)
       \/ Tick
    /\ UNCHANGED <<pipeVars, fineVars>>

SpecGeo == Init /\ [][NextGeo]_vars

(***************************************************************************)
(* Properties.                                                             *)
(***************************************************************************)
SameNormalized(u, v) == normalize_url(u) = normalize_url(v)

\* The step in which request r returns its response.
Returns(r) == pc[r] # "done" /\ pc'[r] = "done"

\* C1: a request whose loaded tracker holds an entry whose key has the same
\* normalized form as the submitted URL, whatever the entry's category, ends
\* with 200 / skipped / "Already processed" and has invoked no collaborator
\* (metadata, download, analysis, geocoding, cleanup, rebuild) and no tracker
\* save, and has assigned no entry.
C1_DuplicateIsSkipped ==
    \A r \in Requests :
        (pc[r] # "idle" /\ \E k \in DOMAIN tracker[r] : SameNormalized(k, url[r]))
        => /\ pc[r] = "done"
           /\ resp[r] = AlreadyProcessed
           /\ calls[r] = NoCalls
           /\ entry[r] = NoneRec

\* C1 witness: a URL is rejected against an entry stored under a different
\* raw key, of category analysis_failed.
C1_Witness ==
    \E r \in Requests : \E k \in DOMAIN tracker[r] :
        /\ pc[r] = "done" /\ resp[r] = AlreadyProcessed
        /\ k # url[r] /\ SameNormalized(k, url[r])
        /\ tracker[r][k].category = "analysis_failed"

\* C2: of two requests in flight together for URLs with the same normalized
\* form at most one has invoked the download, and the persisted tracker never
\* holds two entries with the same normalized key.
C2_AtMostOnce ==
    /\ \A r, q \in Requests :
           (r # q /\ InFlight(r) /\ InFlight(q) /\ SameNormalized(url[r], url[q]))
           => ~(calls[r].download > 0 /\ calls[q].download > 0)
    /\ \A k1, k2 \in DOMAIN primary.data : SameNormalized(k1, k2) => k1 = k2

\* C3: when two requests for URLs with different normalized forms have both
\* saved the tracker and returned, the primary store holds both entries.
C3_NoLostEntry ==
    \A r, q \in Requests :
        (/\ r # q /\ pc[r] = "done" /\ pc[q] = "done"
         /\ calls[r].save = 1 /\ calls[q].save = 1
         /\ ~SameNormalized(url[r], url[q]))
        => /\ url[r] \in DOMAIN primary.data
           /\ url[q] \in DOMAIN primary.data

\* C4: a request that returns 200 and was not rejected as a duplicate has made
\* exactly one tracker save, and the entry it assigned to its URL is in the
\* primary store at the moment the response is returned.
C4_EntrySavedAtResponse ==
    [][\A r \in Requests :
          (Returns(r) /\ resp'[r].code = 200 /\ resp'[r] # AlreadyProcessed)
          => /\ calls'[r].save = 1
             /\ primary'.exists
             /\ url'[r] \in DOMAIN primary'.data
             /\ primary'.data[url'[r]] = entry'[r]]_vars

\* The step in which request r returns 500 because metadata extraction or the
\* download failed.
FailsUpstream(r) ==
    /\ Returns(r)
    /\ resp'[r].code = 500
    /\ resp'[r].message \in {"Metadata failed", "Download failed"}

\* What the failed request r did besides touching the primary store: no
\* tracker save, no entry assigned, no stage after the failed one, the remote
\* backup as it was at receipt.
NoTraceOfFailure(r) ==
    /\ calls'[r].save = 0 /\ entry'[r] = NoneRec
    /\ calls'[r].analyze = 0 /\ calls'[r].geocode = 0 /\ calls'[r].cleanup = 0
    /\ calls'[r].rebuild = 0
    /\ resp'[r].message = "Metadata failed" => calls'[r].download = 0
    /\ backup' = at_receipt'[r].backup

IsFullEntry(e) == "analysis_error" \in DOMAIN e

\* C6: in the entry a request writes after the analysis call, and in its
\* response, the category is analysis_failed whenever the call raised (with
\* any message, the empty one included), and otherwise restaurant if the call
\* returned one or more records and not_restaurant if it returned none.
C6_CategoryFollowsAnalysis ==
    \A r \in Requests :
        IsFullEntry(entry[r])
        => /\ entry[r].category =
                 (IF analysis_error[r] # None THEN "analysis_failed"
                  ELSE IF Len(analysis[r]) > 0 THEN "restaurant"
                  ELSE "not_restaurant")
           /\ (pc[r] = "done" /\ resp[r].status = "success")
                 => resp[r].category = entry[r].category

\* C7: a request whose download returned ends, however it ends, with an
\* entry for its URL of category restaurant, not_restaurant or
\* analysis_failed in the primary store.
C7_DownloadedIsRecorded ==
    [][\A r \in Requests :
          (Returns(r) /\ dl_result'[r] # NoneRec)
          => /\ primary'.exists
             /\ url'[r] \in DOMAIN primary'.data
             /\ primary'.data[url'[r]].category
                   \in {"restaurant", "not_restaurant", "analysis_failed"}]_vars

\* C8: every request sent to the geocoding service, first or fallback, by
\* any caller, goes out at least one second after the previous one.
C8_OneSecondApart ==
    [][\A g \in Callers :
          grequests'[g] = grequests[g] + 1
          => clock - last_request_time >= Second]_vars

\* A call of the geocoder has returned after an empty answer to its first
\* request.
ReturnedAfterEmpty(g) == gpc[g] = "returned" /\ gfirst[g] = "empty"

CityAndCountry(l) ==
    (IF Truthy(l.city) THEN <<l.city>> ELSE <<>>)
    \o (IF Truthy(l.country) THEN <<l.country>> ELSE <<>>)

Scenario(r) ==
    /\ pc[r] = "done" /\ filter_result[r] = "likely" /\ dl_result[r] # NoneRec
    /\ analysis_error[r] = None /\ Len(analysis[r]) = 1
    /\ analysis[r][1].location = CityCountry
    /\ geo_env[r] = <<"empty", "hit">>

\* What both readings of the scenario expect besides the coordinates:
\* category restaurant, restaurants_found = 1 in the entry (and in the
\* primary store while it exists), the rebuild triggered, the envelope
\* persisted with the one restaurant.
ScenarioOutcome(r) ==
    /\ resp[r].code = 200 /\ resp[r].category = "restaurant"
    /\ entry[r].category = "restaurant" /\ entry[r].restaurants_found = 1
    /\ primary.exists => /\ url[r] \in DOMAIN primary.data
                         /\ primary.data[url[r]].restaurants_found = 1
    /\ calls[r].rebuild = 1
    /\ dl_result[r].id \in DOMAIN envelopes
    /\ envelopes[dl_result[r].id].tiktok_url = url[r]
    /\ envelopes[dl_result[r].id].restaurants_found = 1

\* C10 as stated: the scenario ends with category restaurant,
\* restaurants_found = 1, the rebuild triggered and a persisted envelope whose
\* restaurant has non-null lat and lng.
C10_ScenarioGeocoded ==
    \A r \in Requests :
        Scenario(r)
        => /\ ScenarioOutcome(r)
           /\ envelopes[dl_result[r].id].restaurants[1].lat # None
           /\ envelopes[dl_result[r].id].restaurants[1].lng # None

\* C10 amended: the scenario ends with category restaurant,
\* restaurants_found = 1, the rebuild triggered and a persisted envelope whose
\* restaurant has null lat and lng: for a location of city and country only
\* the fallback query equals the first query, so one request is sent and no
\* fallback.
C10_ScenarioNotGeocoded ==
    \A r \in Requests :
        Scenario(r)
        => /\ ScenarioOutcome(r)
           /\ calls[r].geocode = 1
           /\ envelopes[dl_result[r].id].restaurants[1].lat = None
           /\ envelopes[dl_result[r].id].restaurants[1].lng = None

\* C10 witness: the scenario has run to its response for a URL that was not
\* in the tracker.
C10_Witness ==
    \E r \in Requests :
        /\ Scenario(r) /\ ~is_duplicate(url[r], tracker[r])
        /\ resp[r].category = "restaurant" /\ calls[r].rebuild = 1

\* The keys of store p are kept in its next state.
KeepsEntries(p, q) == \A k \in DOMAIN p.data : k \in DOMAIN q.data

\* C11: the tracker is append-only: a URL that has an entry in the remote
\* backup has one in every later state of the backup, and a URL that has an
\* entry in the primary store has one in every later state in which the
\* primary store exists, across requests, cold starts and backup failures.
C11_AppendOnly ==
    [][/\ KeepsEntries(backup, backup')
       /\ (primary.exists /\ primary'.exists) => KeepsEntries(primary, primary')]_vars

\* The step in which request r calls load_tracker.
Loads(r) == pc[r] = "idle" /\ pc'[r] # "idle"

\* C12: load_tracker returns the primary store's content whenever the primary
\* store exists, without contacting the backup and without writing; when the
\* primary store is absent and the backup is reached and holds a tracker, it
\* writes that tracker to the primary store and returns it, so that the
\* primary store exists afterwards and no later load contacts the backup
\* before the next cold start; when the backup is absent or cannot be
\* reached, it returns an empty tracker, the call returns and the primary
\* store stays absent; the backup is never written by a load.
C12_LoadLocalWinsRestoreOnce ==
    [][\A r \in Requests :
          Loads(r)
          => /\ backup' = backup
             /\ primary.exists
                => /\ tracker'[r] = primary.data
                   /\ primary' = primary
                   /\ at_receipt'[r].gcs = "not contacted"
             /\ ~primary.exists
                => /\ at_receipt'[r].gcs \in {"reached", "unreachable"}
                   /\ (backup.exists /\ at_receipt'[r].gcs = "reached")
                      => /\ tracker'[r] = backup.data
                         /\ primary' = Stored(backup.data)
                   /\ (~backup.exists \/ at_receipt'[r].gcs = "unreachable")
                      => /\ tracker'[r] = EmptyTracker
                         /\ primary' = Absent]_vars

\* C12 witness: after a cold start one request's load has restored the
\* tracker from the backup, and a later request's load has returned it from
\* the primary store without contacting the backup.
C12_Witness ==
    \E r, q \in Requests :
        /\ r # q /\ pc[r] # "idle" /\ pc[q] # "idle"
        /\ ~at_receipt[r].primary.exists /\ at_receipt[r].gcs = "reached"
        /\ tracker[r] = at_receipt[r].backup.data /\ tracker[r] # EmptyTracker
        /\ at_receipt[q].primary = Stored(tracker[r])
        /\ at_receipt[q].gcs = "not contacted" /\ tracker[q] = tracker[r]

\* The geocoding service's answers fail a request of the call for location
\* l: the first request, or the fallback request if one is made.
GeocodingFails(l, answers) ==
    \/ answers[1] = "error"
    \/ answers[1] = "empty" /\ answers[2] = "error" /\ needs_fallback(l)

\* C13: when the first or the fallback geocoding request of a restaurant
\* fails (network error, timeout, unparsable response), the restaurant gets
\* null lat and lng, the other records are untouched, no analysis error is
\* recorded and the loop goes on to the next restaurant (to the envelope after
\* the last); and a request whose analysis returned records ends with category
\* restaurant also when a record has no coordinates.
C13_GeocodingFailureIsAbsent ==
    [][\A r \in Requests :
          /\ (pc[r] = "geocode" /\ pc'[r] # "geocode" => pc'[r] = "envelope")
          /\ (/\ pc[r] = "geocode"
              /\ analysis'[r] # analysis[r]
              /\ GeocodingFails(analysis[r][NextRecord(analysis[r])].location, geo_env'[r]))
             => LET i == NextRecord(analysis[r])
                IN /\ Len(analysis'[r]) = Len(analysis[r])
                   /\ analysis'[r][i].lat = None /\ analysis'[r][i].lng = None
                   /\ \A j \in 1..Len(analysis[r]) :
                          j # i => analysis'[r][j] = analysis[r][j]
                   /\ analysis_error'[r] = None
                   /\ pc'[r] = IF i < Len(analysis[r]) THEN "geocode" ELSE "envelope"
          /\ (/\ Returns(r) /\ Len(analysis'[r]) > 0 /\ analysis_error'[r] = None
              /\ \E i \in 1..Len(analysis'[r]) : analysis'[r][i].lat = None)
             => /\ resp'[r].code = 200 /\ resp'[r].category = "restaurant"
                /\ entry'[r].category = "restaurant"
                /\ entry'[r].restaurants_found = Len(analysis'[r])]_vars

\* C13 witness: the first request for the first of two restaurants failed,
\* the record has null coordinates and the second restaurant is next.
C13_Witness ==
    \E r \in Requests :
        /\ pc[r] = "geocode" /\ Len(analysis[r]) = 2
        /\ Geocoded(analysis[r][1]) /\ analysis[r][1].lat = None
        /\ geo_env[r][1] = "error"
        /\ ~Geocoded(analysis[r][2])

CountryOnly == [NoLocation EXCEPT !.country = "USA"]

\* What C14 says of a caller's current call.
EmptyOrCountryOnly(g) ==
    /\ (gpc[g] # "idle" /\ glocation[g] = NoLocation)
       => gpc[g] = "returned" /\ gresult[g] = None /\ grequests[g] = 0
    /\ (gpc[g] # "idle" /\ glocation[g] = CountryOnly)
       => /\ grequests[g] <= 1
          /\ grequests[g] = 1 => gquery[g] = <<"USA">>
          /\ gpc[g] = "returned" => grequests[g] = 1

\* C14: a call of the geocoder for a location with none of the five fields
\* returns None at once with zero requests, and the last-request time changes
\* only in a step that sends a request of a call for a non-empty location; a
\* call for a location with only the country sends one request, whose query is
\* the country alone.
C14_EmptyAndCountryOnly ==
    [][/\ \A g \in Callers : EmptyOrCountryOnly(g)'
       /\ last_request_time' # last_request_time
          => \E g \in Callers : /\ grequests'[g] = grequests[g] + 1
                                 /\ glocation[g] # NoLocation]_vars

\* C14 witness: one caller's call for the empty location has returned None
\* with no request after another caller's country-only call sent its request.
C14_Witness ==
    \E g, h \in Callers :
        /\ gpc[g] = "returned" /\ glocation[g] = NoLocation /\ grequests[g] = 0
        /\ gpc[h] = "returned" /\ glocation[h] = CountryOnly
        /\ grequests[h] = 1 /\ gquery[h] = <<"USA">>

\* The keywords of a list that match the metadata: those found in one field
\* at least.
Matches(keywords, m) ==
    {k \in keywords : k \in m.title \/ k \in m.description
                         \/ k \in m.uploader \/ k \in m.tags}

\* 3h + m - 2a for the matches of the metadata.
Summed(m) ==
    3 * Cardinality(Matches(HIGH_KEYWORDS, m))
    + Cardinality(Matches(MEDIUM_KEYWORDS, m))
    - 2 * Cardinality(Matches(ANTI_KEYWORDS, m))

MatchCounts(m) ==
    <<Cardinality(Matches(HIGH_KEYWORDS, m)), Cardinality(Matches(MEDIUM_KEYWORDS, m)),
      Cardinality(Matches(ANTI_KEYWORDS, m))>>

FieldsWith(k, m) ==
    (IF k \in m.title THEN 1 ELSE 0) + (IF k \in m.description THEN 1 ELSE 0)
    + (IF k \in m.uploader THEN 1 ELSE 0) + (IF k \in m.tags THEN 1 ELSE 0)

RECURSIVE Occurrences(_, _)
\* The field occurrences of the keywords of a list, summed.
Occurrences(keywords, m) ==
    IF keywords = {} THEN 0
    ELSE LET k == CHOOSE x \in keywords : TRUE
         IN FieldsWith(k, m) + Occurrences(keywords \ {k}, m)

\* The score when each field occurrence counts.
PerFieldSum(m) ==
    3 * Occurrences(HIGH_KEYWORDS, m) + Occurrences(MEDIUM_KEYWORDS, m)
    - 2 * Occurrences(ANTI_KEYWORDS, m)

Verdict(score) ==
    IF score >= 3 THEN "likely" ELSE IF score >= -1 THEN "maybe" ELSE "unlikely"

GamingTwice == [Meta({"gaming"}) EXCEPT !.tags = {"gaming"}]
FoodGamingTwice == [Meta({"food", "gaming"}) EXCEPT !.tags = {"gaming"}]
RamenTwice == [Meta({"ramen"}) EXCEPT !.description = {"ramen"}]

\* C16 as stated: a keyword that occurs in k fields contributes k times its
\* weight, so the verdict is the one of the per-field sum: a high keyword in
\* title and description counts +6, an anti keyword in title and tags -4
\* (alone: unlikely; with one medium keyword: -3, unlikely).
C16_EachFieldCounts ==
    \A r \in Requests :
        meta[r] # NoneRec
        => /\ filter_result[r] = Verdict(PerFieldSum(meta[r]))
           /\ meta[r] = GamingTwice => filter_result[r] = "unlikely"
           /\ meta[r] = FoodGamingTwice => filter_result[r] = "unlikely"

\* C16 amended: a keyword contributes its weight once, in however many fields
\* it occurs: the verdict is the one of the sum over the keywords that occur
\* at all; a high keyword in both title and description contributes +3 and an
\* anti keyword in both title and tags contributes -2 (alone: unlikely; with
\* one medium keyword: -1, maybe).
C16_EachKeywordCountsOnce ==
    \A r \in Requests :
        meta[r] # NoneRec
        => /\ filter_result[r] = Verdict(Summed(meta[r]))
           /\ meta[r] = GamingTwice
              => Summed(meta[r]) = -2 /\ filter_result[r] = "unlikely"
           /\ meta[r] = FoodGamingTwice
              => Summed(meta[r]) = -1 /\ filter_result[r] = "maybe"
           /\ meta[r] = RamenTwice
              => Summed(meta[r]) = 3 /\ filter_result[r] = "likely"

\* C16 witness: a medium keyword in the title and an anti keyword in title
\* and tags, verdict maybe.
C16_Witness ==
    \E r \in Requests : meta[r] = FoodGamingTwice /\ filter_result[r] = "maybe"

\* u is b, then any number of slashes, then nothing or a query string or a
\* fragment; b holds no ? and no # and does not end with a slash.
HasBase(u, b) ==
    /\ Len(b) <= Len(u) /\ SubSeq(u, 1, Len(b)) = b
    /\ \A i \in 1..Len(b) : b[i] \notin {"?", "#"}
    /\ b = <<>> \/ b[Len(b)] # "/"
    /\ \E j \in Len(b)..Len(u) :
          /\ \A i \in (Len(b) + 1)..j : u[i] = "/"
          /\ j = Len(u) \/ u[j + 1] \in {"?", "#"}

\* u and v differ only in the query string, the fragment or the number of
\* trailing slashes before them.
SameBase(u, v) ==
    \E n \in 0..Len(u) : HasBase(u, SubSeq(u, 1, n)) /\ HasBase(v, SubSeq(u, 1, n))

\* C17: when the tracker a request loaded holds a key (stored raw) that
\* differs from the submitted URL only in query string, fragment or trailing
\* slashes, the two have the same normalized form and the request is rejected
\* as a duplicate.
C17_VariantsAreDuplicates ==
    \A r \in Requests :
        pc[r] # "idle"
        => \A k \in DOMAIN tracker[r] :
               SameBase(k, url[r])
               => /\ normalize_url(k) = normalize_url(url[r])
                  /\ is_duplicate(url[r], tracker[r])
                  /\ pc[r] = "done" /\ resp[r] = AlreadyProcessed

\* C17 witness: a URL with slashes and a fragment is rejected against the
\* key stored with a query string.
C17_Witness ==
    \E r \in Requests :
        /\ pc[r] = "done" /\ resp[r] = AlreadyProcessed
        /\ url[r] = <<"a", "/", "#">>
        /\ DOMAIN tracker[r] = {<<"a", "?", "/">>}

\* The stages of a request after its dedup check, in the order of the handler.
Stages == <<"meta", "download", "analyze", "cleanup", "save", "rebuild">>

\* Request r invokes the stage in this step.
Starts(r, stage) == calls'[r][stage] > calls[r][stage]

\* analyze_video has returned (every record geocoded and, when there are
\* records, the envelope stored) or has raised.
AnalysisOver(r) ==
    /\ calls[r].analyze = 1
    /\ \/ analysis_error[r] # None
       \/ /\ \A j \in 1..Len(analysis[r]) : Geocoded(analysis[r][j])
          /\ analysis[r] # <<>>
             => /\ dl_result[r].id \in DOMAIN envelopes
                /\ envelopes[dl_result[r].id] = Envelope(r)

\* What every stage needs, but for the tracker save.
OrderedBut(r) ==
    /\ \A i \in 1..Len(Stages) :
           Starts(r, Stages[i])
           => /\ pc[r] \notin {"idle", "done"}
              /\ \A j \in 1..(i - 1) : calls[r][Stages[j]] <= 1
              /\ \A j \in i..Len(Stages) : calls[r][Stages[j]] = 0
    /\ Starts(r, "download")
       => meta[r] # NoneRec /\ filter_result[r] \in {"likely", "maybe"}
    /\ Starts(r, "analyze") => calls[r].download = 1 /\ dl_result[r] # NoneRec
    /\ Starts(r, "cleanup") => AnalysisOver(r)
    /\ Starts(r, "rebuild") => calls[r].save = 1 /\ primary.exists

\* C18 as stated: the stages of a request are invoked in the handler's order,
\* download only after metadata and a likely or maybe verdict, analysis only
\* after the download succeeded, cleanup only after the analysis returned or
\* raised, every tracker save only after cleanup, rebuild only after the save.
C18_SaveOnlyAfterCleanup ==
    [][\A r \in Requests :
          /\ OrderedBut(r)
          /\ Starts(r, "save") => calls[r].cleanup = 1]_vars

\* C18 amended: as above, but the tracker save comes after cleanup when the
\* download happened, and straight after the filter when the verdict is
\* unlikely (no download, analysis or cleanup then).
C18_StagesInOrder ==
    [][\A r \in Requests :
          /\ OrderedBut(r)
          /\ Starts(r, "save")
             => IF filter_result[r] = "unlikely"
                THEN /\ calls[r].meta = 1
                     /\ calls[r].download = 0 /\ calls[r].cleanup = 0
                ELSE calls[r].cleanup = 1 /\ IsFullEntry(entry[r])]_vars

\* C18 witness: a request has gone through every stage once.
C18_Witness ==
    \E r \in Requests :
        /\ pc[r] = "done"
        /\ \A i \in 1..Len(Stages) : calls[r][Stages[i]] = 1

\* Request r takes a step.
Moves(r) == pc'[r] # pc[r]

\* Stages the unlikely path never invokes.
NotOnSkippedPath == {"download", "analyze", "geocode", "cleanup", "rebuild"}

\* C19: on the verdict unlikely the request saves the entry (category
\* skipped_not_restaurant, filter_result unlikely, filename null), returns 200
\* with status skipped and invokes none of download, analysis, geocoding,
\* cleanup and rebuild; on likely or maybe the filter writes no entry and the
\* request's next step invokes download.
C19_FilterBranches ==
    [][\A r \in Requests :
          /\ filter_result'[r] = "unlikely"
             => /\ \A stage \in NotOnSkippedPath : calls'[r][stage] = 0
                /\ entry'[r].category = "skipped_not_restaurant"
                /\ entry'[r].filter_result = "unlikely"
                /\ entry'[r].filename = None
                /\ pc'[r] \in {"save", "backup", "done"}
                /\ Starts(r, "save")
                   => /\ primary'.exists /\ url[r] \in DOMAIN primary'.data
                      /\ primary'.data[url[r]] = entry[r]
                /\ Returns(r)
                   => /\ calls[r].save = 1
                      /\ resp'[r].code = 200 /\ resp'[r].status = "skipped"
          /\ filter_result[r] = None /\ filter_result'[r] \in {"likely", "maybe"}
             => /\ entry'[r] = NoneRec
                /\ primary' = primary /\ backup' = backup
                /\ calls'[r].save = 0 /\ calls'[r].download = 0
          /\ filter_result[r] \in {"likely", "maybe"} /\ calls[r].download = 0 /\ Moves(r)
             => Starts(r, "download")]_vars

\* C19 witness: a filtered-out request has returned, its entry saved next to
\* an earlier one.
C19_Witness ==
    \E r \in Requests :
        /\ pc[r] = "done" /\ filter_result[r] = "unlikely"
        /\ resp[r].code = 200 /\ resp[r].status = "skipped"
        /\ tracker[r] # EmptyTracker
        /\ primary.exists /\ primary.data = Put(tracker[r], url[r], entry[r])

\* The only request of SpecOne has persisted an envelope for its video.
PersistedEnvelope(r) == dl_result[r].id \in DOMAIN envelopes

\* C20: in every entry written after a successful download, category is
\* restaurant iff restaurants_found > 0 iff analysis_file is not null iff the
\* request persisted an envelope; analysis_failed comes with no restaurants,
\* no analysis_file and an analysis_error that is not null; not_restaurant
\* comes with no restaurants and a null analysis_error; and no persisted
\* envelope has zero restaurant records.
C20_EntryAgreesWithEnvelope ==
    /\ \A r \in Requests :
           IsFullEntry(entry[r])
           => /\ (entry[r].category = "restaurant") = (entry[r].restaurants_found > 0)
              /\ (entry[r].restaurants_found > 0) = (entry[r].analysis_file # None)
              /\ (entry[r].analysis_file # None) = PersistedEnvelope(r)
              /\ entry[r].category = "analysis_failed"
                 => /\ entry[r].restaurants_found = 0
                    /\ entry[r].analysis_file = None
                    /\ entry[r].analysis_error # None
              /\ entry[r].category = "not_restaurant"
                 => /\ entry[r].restaurants_found = 0
                    /\ entry[r].analysis_error = None
    /\ \A id \in DOMAIN envelopes :
           envelopes[id].restaurants_found > 0 /\ envelopes[id].restaurants # <<>>

\* The category the handler derives from the outcome of the analysis alone.
CategoryFrom(err, result) ==
    IF Truthy(err) THEN "analysis_failed"
    ELSE IF result # <<>> THEN "restaurant" ELSE "not_restaurant"

\* C21: once the analysis has ended the request's next step is the cleanup,
\* before any tracker save; whatever the cleanup does (it fails, or a file is
\* already gone) the category is the one the analysis outcome gives, the
\* tracker save is made and the response is 200; and a cleanup that did not
\* fail leaves neither the video nor its sidecar file.
C21_CleanupNeverBlocks ==
    [][\A r \in Requests :
          /\ pc[r] = "cleanup" /\ Moves(r)
             => /\ Starts(r, "cleanup") /\ calls[r].save = 0
                /\ cleanup_log'[r] \in {"deleted", "warning"}
                /\ IsFullEntry(entry'[r])
                /\ entry'[r].category = CategoryFrom(analysis_error[r], analysis[r])
                /\ cleanup_log'[r] = "deleted"
                   => /\ video_file(dl_result[r].id) \notin files'
                      /\ info_file(dl_result[r].id) \notin files'
          /\ cleanup_log[r] # None /\ Moves(r)
             => /\ entry'[r] = entry[r]
                /\ pc[r] = "save" => Starts(r, "save") /\ primary'.exists
                /\ Returns(r)
                   => /\ calls[r].save = 1
                      /\ resp'[r].code = 200 /\ resp'[r].category = entry[r].category
          /\ Starts(r, "save") /\ IsFullEntry(entry[r]) => cleanup_log[r] # None]_vars

\* C21 witness: one request has returned 200 after a failed cleanup, another
\* after a cleanup that found the video already gone.
C21_Witness ==
    \E r, q \in Requests :
        /\ pc[r] = "done" /\ cleanup_log[r] = "warning" /\ resp[r].code = 200
        /\ pc[q] = "done" /\ cleanup_log[q] = "deleted" /\ resp[q].code = 200
        /\ analysis_error[q] = "Video not found"

\* The request ends with category restaurant.
EndsAsRestaurant(r) == IsFullEntry(entry[r]) /\ entry[r].category = "restaurant"

\* C22: a request triggers the rebuild only when its category is restaurant
\* and its tracker save is made, and only once; a request returns having
\* triggered it once if its category is restaurant and never otherwise; and
\* the rebuild, failed or not, changes neither the stored tracker nor the
\* entry, and the response is 200 with category restaurant.
C22_RebuildOnceIffRestaurant ==
    [][\A r \in Requests :
          /\ Starts(r, "rebuild")
             => /\ EndsAsRestaurant(r)
                /\ calls[r].save = 1 /\ calls[r].rebuild = 0
                /\ primary' = primary /\ backup' = backup /\ entry'[r] = entry[r]
                /\ primary.exists /\ url[r] \in DOMAIN primary.data
                /\ primary.data[url[r]] = entry[r]
                /\ Returns(r)
                /\ resp'[r].code = 200 /\ resp'[r].category = "restaurant"
          /\ Returns(r)
             => calls'[r].rebuild = (IF EndsAsRestaurant(r) THEN 1 ELSE 0)]_vars

\* C22 witness: a request has returned 200 with category restaurant after a
\* rebuild that failed (no aggregate was written), its entry saved.
C22_Witness ==
    \E r \in Requests :
        /\ pc[r] = "done" /\ calls[r].rebuild = 1
        /\ ~aggregate.exists
        /\ resp[r].code = 200 /\ resp[r].category = "restaurant"
        /\ primary.exists /\ url[r] \in DOMAIN primary.data
        /\ primary.data[url[r]].category = "restaurant"

\* The poll loop and the test after it do what the claim says: the request
\* sleeps and polls only while PROCESSING is reported, sends the analysis
\* request only when ACTIVE was reported, and on any other state has failed
\* without results, with category analysis_failed.
PollLoopAsStated ==
    \A r \in Requests :
        /\ pc[r] \in {"poll_sleep", "poll_get"} => file_state[r] = "PROCESSING"
        /\ pc[r] \in {"generate", "geocode", "envelope"} => file_state[r] = "ACTIVE"
        /\ analysis[r] # <<>> => file_state[r] = "ACTIVE"
        /\ file_state[r] = "FAILED"
           => /\ pc[r] \in {"cleanup", "save", "backup", "done"}
              /\ analysis[r] = <<>> /\ analysis_error[r] = UploadFailed
              /\ IsFullEntry(entry[r]) => entry[r].category = "analysis_failed"

\* C23: every request that has arrived returns a response, whatever states
\* the file service reports, and the poll loop behaves as stated.
C23_EveryRequestReturns ==
    /\ []PollLoopAsStated
    /\ \A r \in {"r1"} : (pc[r] # "idle") ~> (pc[r] = "done")

\* Request r has downloaded its video and its analysis has not read it yet.
AwaitsAnalysis(r) == pc[r] \in {"sidecar", "analyze"}

\* C24: of two requests that submitted URLs with different normal forms,
\* each, while it has downloaded its video and the analysis has not read it,
\* finds the video and its sidecar file in the download directory whatever
\* the other does, and its analysis never finds the video gone.
C24_ArtifactsNotShared ==
    \A r, q \in Requests :
        (r # q /\ pc[r] # "idle" /\ pc[q] # "idle" /\ ~SameNormalized(url[r], url[q]))
        => /\ AwaitsAnalysis(r)
              => /\ video_file(dl_result[r].id) \in files
                 /\ info_file(dl_result[r].id) \in files
           /\ analysis_error[r] # "Video not found"

\* The records an aggregate owes an item to: record i of readable envelope
\* id, both coordinates not null.
Owed ==
    {p \in VideoIds \X (1..(MaxRestaurants + 2)) :
        /\ p[1] \in (DOMAIN envelopes) \ unreadable
        /\ p[2] <= Len(envelopes[p[1]].restaurants)
        /\ envelopes[p[1]].restaurants[p[2]].lat # None
        /\ envelopes[p[1]].restaurants[p[2]].lng # None}

\* The item of an owed record.
ItemFor(p) ==
    [location |-> envelopes[p[1]].restaurants[p[2]].location,
     lat |-> envelopes[p[1]].restaurants[p[2]].lat,
     lng |-> envelopes[p[1]].restaurants[p[2]].lng,
     tiktok_url |-> envelopes[p[1]].tiktok_url]

\* items holds exactly one item for each owed record and nothing else.
OneItemEach(items) ==
    /\ Len(items) = Cardinality(Owed)
    /\ \A k \in 1..Len(items) : items[k].lat # None /\ items[k].lng # None
    /\ \A p \in Owed :
           Cardinality({k \in 1..Len(items) : items[k] = ItemFor(p)})
               = Cardinality({q \in Owed : ItemFor(q) = ItemFor(p)})

\* A run of build by itself.
Builds == builds' = builds + 1

\* C25: a run of build by itself leaves an aggregate with exactly one item
\* for each record, of each readable envelope, whose lat and lng are both not
\* null, and none for a record with a null coordinate; a further run over the
\* same envelopes leaves the same aggregate.
C25_AggregateIsTheGeocodedRecords ==
    [][Builds
       => /\ aggregate'.exists /\ OneItemEach(aggregate'.items)
          /\ (aggregate.exists /\ OneItemEach(aggregate.items))
             => aggregate' = aggregate]_vars

\* C25 witness: two runs have left an aggregate of two items with two
\* envelopes stored, one of which holds a record with a null coordinate.
C25_Witness ==
    /\ builds = 2 /\ aggregate.exists /\ Len(aggregate.items) = 2
    /\ DOMAIN envelopes = VideoIds /\ unreadable = {}
    /\ \E id \in VideoIds : \E i \in 1..Len(envelopes[id].restaurants) :
           envelopes[id].restaurants[i].lat = None

\* The requests, for URLs with different normal forms, have all returned
\* with category restaurant.
AllReturnedAsRestaurant ==
    /\ \A r \in Requests : pc[r] = "done" /\ EndsAsRestaurant(r)
    /\ \A r, q \in Requests : r # q => ~SameNormalized(url[r], url[q])

\* C26: once all the concurrent requests have returned with category
\* restaurant (their rebuilds succeeded), the aggregate holds the geocoded
\* records of every persisted envelope.
C26_AggregateHoldsEveryEnvelope ==
    AllReturnedAsRestaurant
    => aggregate.exists /\ OneItemEach(aggregate.items)

\* Timestamp j of the list was well formed and its frame was extracted and
\* uploaded.
Succeeded(timestamps, j) ==
    timestamps[j].kind = "ok" /\ timestamps[j].outcome = "uploaded"

\* images names exactly the succeeded timestamps of record i, in their order.
ExactlyTheSucceeded(i, timestamps, images) ==
    /\ \A k \in 1..Len(images) :
           /\ images[k][1] = i
           /\ images[k][2] \in 1..Len(timestamps)
           /\ Succeeded(timestamps, images[k][2])
    /\ \A k, l \in 1..Len(images) : k < l => images[k][2] < images[l][2]
    /\ \A j \in 1..Len(timestamps) :
           Succeeded(timestamps, j) => \E k \in 1..Len(images) : images[k] = <<i, j>>

\* C27: whatever the timestamps of the records, extract_food_frames returns
\* (no malformed timestamp and no failed extraction or upload aborts it) and
\* every record's image list names exactly the well-formed timestamps whose
\* extraction and upload succeeded, in timestamp order.
C27_EveryTimestampProcessed ==
    frames # NoneRec
    => /\ ~frames.raised
       /\ Len(frames.images) = Len(frames.restaurants)
       /\ \A i \in 1..Len(frames.restaurants) :
              ExactlyTheSucceeded(i, frames.restaurants[i], frames.images[i])

====
